---- MODULE Spec2Model ----
(***************************************************************************)
(* A model of parse_elf (src/parse_elf.c): the file is mapped, its magic   *)
(* is asserted, and the ELF header, the program headers, the section       *)
(* headers and the string tables are dumped in that order.                 *)
(*                                                                         *)
(* Integers wider than 16 bits are kept as little-endian sequences of      *)
(* 16-bit limbs (a uint16_t is <<l0>>, a uint32_t <<l0,l1>>, a uint64_t    *)
(* <<l0,l1,l2,l3>>), so that 64-bit wraparound is computed, not assumed.   *)
(*                                                                         *)
(* Memory: positions are byte offsets from map_addr.  [0, st_size) holds   *)
(* the file, [st_size, map_end) is memory that is mapped but not part of   *)
(* the file (the rest of the last page, or a neighbouring mapping) and     *)
(* reads as zero up to the end of the file's last page and as the byte     *)
(* `fill` in the `neighbour` bytes after it; an access anywhere else kills *)
(* the process with SIGSEGV.  neighbour and fill are chosen                *)
(* nondeterministically: a read outside the file is undefined behaviour.   *)
(***************************************************************************)
EXTENDS Integers, Sequences, FiniteSets, TLC

VARIABLES
    file,       \* the bytes of the file named on the command line
    neighbour,  \* how many bytes are mapped right after the file's last page
    fill,       \* the byte those neighbouring bytes read as
    pc,         \* the function main is about to call, or how the process ended
    i,          \* the loop index of the running table loop
    str_offset, \* the position of parse_string_tables' inner loop
    newline,    \* that loop's flag: the next byte starts a run
    called,     \* the functions main has called so far
    hdr,        \* what parse_elf_header printed
    phdrs,      \* the rows parse_program_headers printed
    shdrs,      \* the rows parse_section_headers printed
    strtabs,    \* the string tables parse_string_tables printed
    reads       \* the memory accesses of the three table functions

vars == <<file, neighbour, fill, pc, i, str_offset, newline, called, hdr, phdrs, shdrs, strtabs, reads>>

(***************************************************************************)
(* Bounds of the model.                                                    *)
(***************************************************************************)
MaxPh == 2
MaxSh == 2
PageSize == 64          \* the granularity of a mapping (a page)

(***************************************************************************)
(* Limb arithmetic.                                                        *)
(***************************************************************************)
B16 == 256 * 256

U16(n) == <<n>>
U32(n) == <<n % B16, n \div B16>>
U64(n) == <<n % B16, n \div B16, 0, 0>>

\* the value of a limb sequence that fits a model integer
IsSmall(v) == \A k \in 2..Len(v) : v[k] = 0
Lo(v) == v[1]

\* zero-extension to 64 bits (integer conversion to unsigned long)
Ext64(v) == [k \in 1..4 |-> IF k <= Len(v) THEN v[k] ELSE 0]

\* a + b modulo 2^64
Add64(a, b) ==
    LET s1 == a[1] + b[1]
        s2 == a[2] + b[2] + (s1 \div B16)
        s3 == a[3] + b[3] + (s2 \div B16)
        s4 == a[4] + b[4] + (s3 \div B16)
    IN  <<s1 % B16, s2 % B16, s3 % B16, s4 % B16>>

\* a + b does not fit 64 bits
Carry64(a, b) ==
    LET s1 == a[1] + b[1]
        s2 == a[2] + b[2] + (s1 \div B16)
        s3 == a[3] + b[3] + (s2 \div B16)
        s4 == a[4] + b[4] + (s3 \div B16)
    IN  s4 >= B16

\* a < b for two limb sequences of the same length
Lt(a, b) ==
    \E k \in 1..Len(a) :
        /\ a[k] < b[k]
        /\ \A m \in (k+1)..Len(a) : a[m] = b[m]

Le(a, b) == a = b \/ Lt(a, b)

\* n * m modulo 2^64 for n, m below 2^16 (the product may exceed 2^31)
Mul16(n, m) ==
    LET lo == n * (m % 256)
        hi == n * (m \div 256)
    IN  Add64(U64(lo), <<(hi % 256) * 256, hi \div 256, 0, 0>>)

\* bit b (a power of two below 2^16) of the low limb
Bit(v, b) == (v[1] \div b) % 2 = 1

(***************************************************************************)
(* Byte encodings of a limb sequence.                                      *)
(***************************************************************************)
Reverse(s) == [k \in 1..Len(s) |-> s[Len(s) + 1 - k]]

RECURSIVE EncLE(_)
EncLE(v) ==
    IF v = <<>> THEN <<>>
    ELSE <<Head(v) % 256, Head(v) \div 256>> \o EncLE(Tail(v))

EncBE(v) == Reverse(EncLE(v))

ELFDATA2LSB == 1
ELFDATA2MSB == 2

\* the bytes of a field in the image's declared data encoding
Enc(v, enc) == IF enc = ELFDATA2MSB THEN EncBE(v) ELSE EncLE(v)

\* the integer a byte string denotes in a data encoding
DecLE(bs) == [k \in 1..(Len(bs) \div 2) |-> bs[2*k - 1] + 256 * bs[2*k]]
Dec(bs, enc) == IF enc = ELFDATA2MSB THEN DecLE(Reverse(bs)) ELSE DecLE(bs)

(***************************************************************************)
(* Constants of <elf.h> that the program uses.                             *)
(***************************************************************************)
EI_NIDENT == 16
SizeofEhdr == 64
SizeofPhdr == 56
SizeofShdr == 64
SHN_UNDEF == 0
SHN_XINDEX == 65535
SHT_NULL == 0
SHT_PROGBITS == 1
SHT_STRTAB == 3
PT_NULL == 0
PT_LOAD == 1
PF_X == 1
PF_W == 2
PF_R == 4

(***************************************************************************)
(* Input images.  An image is built from a parameter record:               *)
(*   header (64 bytes) | string data | first table | second table          *)
(* with the program header table last when phLast, else the section header *)
(* table.  Every multi-byte field is stored in the declared data encoding. *)
(***************************************************************************)
RECURSIVE Flatten(_)
Flatten(ss) == IF ss = <<>> THEN <<>> ELSE Head(ss) \o Flatten(Tail(ss))

Zeros(n) == [k \in 1..n |-> 0]

Magic == <<127, 69, 76, 70>>      \* 0x7f 'E' 'L' 'F'

StrDataOff == SizeofEhdr

PhOffOf(p) ==
    StrDataOff + Len(p.str) + (IF p.phLast THEN p.shnum * SizeofShdr ELSE 0)

ShOffOf(p) ==
    StrDataOff + Len(p.str) + (IF p.phLast THEN 0 ELSE p.phnum * SizeofPhdr)

FullLen(p) ==
    StrDataOff + Len(p.str) + p.phnum * SizeofPhdr + p.shnum * SizeofShdr

Huge64 == <<B16 - 8, B16 - 1, B16 - 1, B16 - 1>>    \* 2^64 - 8
Max64  == <<B16 - 1, B16 - 1, B16 - 1, B16 - 1>>    \* 2^64 - 1

PhOffField(p) ==
    CASE p.phoffMode = "ok"   -> U64(PhOffOf(p))
      [] p.phoffMode = "past" -> U64(FullLen(p) + 8)
      [] p.phoffMode = "huge" -> Huge64

EhdrBytes(p) ==
    Flatten(<<
        (IF p.magic THEN Magic ELSE <<127, 69, 76, 71>>),
        <<2, p.enc, 1, 0, 0>>, Zeros(7),
        Enc(U16(2), p.enc),                  \* e_type      ET_EXEC
        Enc(U16(62), p.enc),                 \* e_machine   EM_X86_64
        Enc(U32(1), p.enc),                  \* e_version
        Enc(U64(4096), p.enc),               \* e_entry
        Enc(PhOffField(p), p.enc),           \* e_phoff     0x20
        Enc(U64(ShOffOf(p)), p.enc),         \* e_shoff     0x28
        Enc(U32(0), p.enc),                  \* e_flags     0x30
        Enc(U16(SizeofEhdr), p.enc),         \* e_ehsize    0x34
        Enc(U16(p.phentsize), p.enc),        \* e_phentsize 0x36
        Enc(U16(p.phnum), p.enc),            \* e_phnum     0x38
        Enc(U16(p.shentsize), p.enc),        \* e_shentsize 0x3a
        Enc(U16(p.shnum), p.enc),            \* e_shnum     0x3c
        Enc(U16(p.shstrndx), p.enc) >>)      \* e_shstrndx  0x3e

\* the first entry carries the parameters' type and flags, the others are
\* readable PT_NOTE segments
PTypeOf(p, k) == IF k = 1 THEN p.ptype ELSE U32(4)
PFlagsOf(p, k) == IF k = 1 THEN p.pflags ELSE U32(PF_R)

PhdrBytes(p, k) ==
    Flatten(<<
        Enc(PTypeOf(p, k), p.enc),           \* p_type
        Enc(PFlagsOf(p, k), p.enc),          \* p_flags
        Enc(U64(0), p.enc),                  \* p_offset
        Enc(U64(4096), p.enc),               \* p_vaddr
        Enc(U64(4096), p.enc),               \* p_paddr
        Enc(U64(64), p.enc),                 \* p_filesz
        Enc(U64(64), p.enc),                 \* p_memsz
        Enc(U64(16), p.enc) >>)              \* p_align

\* section 0 is SHT_NULL, odd sections are string tables, the others PROGBITS
ShTypeOf(k) ==
    IF k = 0 THEN SHT_NULL ELSE IF k % 2 = 1 THEN SHT_STRTAB ELSE SHT_PROGBITS

ShOffsetField(p) == IF p.strAtZero THEN U64(0) ELSE U64(StrDataOff)

ShSizeField(p) ==
    CASE p.sizeMode = "exact"  -> U64(IF p.strAtZero THEN 8 ELSE Len(p.str))
      [] p.sizeMode = "beyond" -> U64(FullLen(p) + 8)
      [] p.sizeMode = "wrap"   -> Max64

ShdrBytes(p, k) ==
    Flatten(<<
        Enc(U32(k), p.enc),                  \* sh_name
        Enc(U32(ShTypeOf(k)), p.enc),        \* sh_type
        Enc(U64(0), p.enc),                  \* sh_flags
        Enc(U64(0), p.enc),                  \* sh_addr
        Enc(IF k = 0 THEN U64(0) ELSE ShOffsetField(p), p.enc),   \* sh_offset
        Enc(IF k = 0 THEN U64(0) ELSE ShSizeField(p), p.enc),     \* sh_size
        Enc(U32(0), p.enc),                  \* sh_link
        Enc(U32(0), p.enc),                  \* sh_info
        Enc(U64(1), p.enc),                  \* sh_addralign
        Enc(U64(0), p.enc) >>)               \* sh_entsize

PhTable(p) == Flatten([k \in 1..p.phnum |-> PhdrBytes(p, k)])
ShTable(p) == Flatten([k \in 1..p.shnum |-> ShdrBytes(p, k - 1)])

FullImage(p) ==
    EhdrBytes(p) \o p.str \o
    (IF p.phLast THEN ShTable(p) \o PhTable(p) ELSE PhTable(p) \o ShTable(p))

\* p.cut >= 0 cuts the image to p.cut bytes, p.cut < 0 removes -p.cut - 1
\* bytes from its end (-1 is the whole image)
ImageLen(p) ==
    IF p.cut >= 0 THEN (IF p.cut < FullLen(p) THEN p.cut ELSE FullLen(p))
    ELSE FullLen(p) + p.cut + 1

Image(p) == SubSeq(FullImage(p), 1, ImageLen(p))

(***************************************************************************)
(* Memory as the process sees it through map_addr.                         *)
(***************************************************************************)
st_size == Len(file)

\* mmap maps whole pages; the rest of the last page reads as zero
page_end == ((st_size + PageSize - 1) \div PageSize) * PageSize

map_end == page_end + neighbour

\* the n bytes at position pos (a uint64_t) can be read without a fault
Mapped(pos, n) == IsSmall(pos) /\ Lo(pos) + n <= map_end

\* map_addr[q] for a mapped position q
Mem(q) ==
    IF q < st_size THEN file[q + 1]
    ELSE IF q < page_end THEN 0
    ELSE fill

\* an n-byte struct member at position q, as the host (x86-64,
\* little-endian) loads it
Field(q, n) == [k \in 1..(n \div 2) |-> Mem(q + 2*k - 2) + 256 * Mem(q + 2*k - 1)]

\* Elf64_Ehdr members, e = (Elf64_Ehdr *)map_addr
e_ident(k)  == Mem(k)
e_type      == Field(16, 2)
e_machine   == Field(18, 2)
e_phoff     == Field(32, 8)
e_shoff     == Field(40, 8)
e_phentsize == Field(54, 2)
e_phnum     == Field(56, 2)
e_shentsize == Field(58, 2)
e_shnum     == Field(60, 2)
e_shstrndx  == Field(62, 2)

\* Elf64_Phdr members of the entry at position q
p_type(q)  == Field(q, 4)
p_flags(q) == Field(q + 4, 4)

\* Elf64_Shdr members of the entry at position q
sh_name(q)   == Field(q, 4)
sh_type(q)   == Field(q + 4, 4)
sh_flags(q)  == Field(q + 8, 8)
sh_offset(q) == Field(q + 24, 8)
sh_size(q)   == Field(q + 32, 8)

(***************************************************************************)
(* map_file: the file is opened and mapped and the magic is asserted.      *)
(* mmap fails with EINVAL on a length of 0; a failed assert aborts.        *)
(***************************************************************************)
MagicOK ==
    /\ e_ident(0) = 127
    /\ e_ident(1) = 69
    /\ e_ident(2) = 76
    /\ e_ident(3) = 70

MmapFails == st_size = 0

map_file ==
    /\ pc = "map_file"
    /\ called' = called \cup {"map_file"}
    /\ pc' = IF MmapFails THEN "aborted"
             ELSE IF MagicOK THEN "parse_elf_header"
             ELSE "aborted"
    /\ UNCHANGED <<file, neighbour, fill, i, str_offset, newline, hdr, phdrs, shdrs, strtabs, reads>>

(***************************************************************************)
(* parse_elf_header: every member of the Elf64_Ehdr at map_addr is printed *)
(* with its meaning.  Nothing is validated.                                *)
(***************************************************************************)
ClassMeaning(c) ==
    CASE c = 0 -> "No class"
      [] c = 1 -> "32-bit architecture"
      [] c = 2 -> "64-bit architecture"
      [] OTHER -> "Invalid"

DataMeaning(d) ==
    CASE d = 0 -> "Unknown data format"
      [] d = ELFDATA2LSB -> "Two's complement, little-endian"
      [] d = ELFDATA2MSB -> "Two's complement, big endian"
      [] OTHER -> "Invalid"

TypeMeaning(t) ==
    CASE t = U16(0) -> "Unknown type"
      [] t = U16(1) -> "A relocatable file"
      [] t = U16(2) -> "An executable file"
      [] t = U16(3) -> "An shared object"
      [] t = U16(4) -> "A core file"
      [] OTHER -> "Invalid"

\* the value printed in the row "Section hdr str idx" (offset 0x3e)
StrIdxValue == e_shnum

\* the meaning printed in that row
StrIdxMeaning ==
    IF e_shnum = U16(SHN_UNDEF) THEN "No string table present"
    ELSE IF e_shnum = U16(SHN_XINDEX) THEN "Extended index used"
    ELSE ""

parse_elf_header ==
    /\ pc = "parse_elf_header"
    /\ called' = called \cup {"parse_elf_header"}
    /\ IF Mapped(U64(0), SizeofEhdr)
       THEN /\ hdr' = [ class       |-> ClassMeaning(e_ident(4)),
                        data        |-> DataMeaning(e_ident(5)),
                        type        |-> TypeMeaning(e_type),
                        machine     |-> e_machine,
                        e_phoff     |-> e_phoff,
                        e_shoff     |-> e_shoff,
                        e_phentsize |-> e_phentsize,
                        e_phnum     |-> e_phnum,
                        e_shentsize |-> e_shentsize,
                        e_shnum     |-> e_shnum,
                        stridx      |-> StrIdxValue,
                        stridx_text |-> StrIdxMeaning ]
            /\ pc' = "parse_program_headers"
       ELSE /\ pc' = "segv"
            /\ hdr' = hdr
    /\ i' = 0
    /\ UNCHANGED <<file, neighbour, fill, str_offset, newline, phdrs, shdrs, strtabs, reads>>

(***************************************************************************)
(* parse_program_headers: ph starts at map_addr + e_phoff and is advanced  *)
(* by ph++ (sizeof(Elf64_Phdr) bytes) for each i below e_phnum.            *)
(***************************************************************************)
PT_LOPROC == <<0, 28672>>               \* 0x70000000
PT_HIPROC == <<65535, 32767>>           \* 0x7fffffff
PT_GNU_EH_FRAME == <<58704, 25716>>     \* 0x6474e550
PT_GNU_STACK == <<58705, 25716>>        \* 0x6474e551
PT_GNU_RELRO == <<58706, 25716>>        \* 0x6474e552

Known(name) == [name |-> name, raw |-> <<>>]
Invalid(t) == [name |-> "Invalid", raw |-> t]

\* SegmentType with PT_HIPROC left out of the processor-specific range
SegmentTypeBelowHiproc(t) ==
    IF t = U32(PT_NULL) THEN Known("NULL")
    ELSE IF t = U32(PT_LOAD) THEN Known("LOAD")
    ELSE IF t = U32(2) THEN Known("DYNAMIC")
    ELSE IF t = U32(3) THEN Known("INTERP")
    ELSE IF t = U32(4) THEN Known("NOTE")
    ELSE IF t = U32(5) THEN Known("SHLIB")
    ELSE IF t = U32(6) THEN Known("PHDR")
    ELSE IF Le(PT_LOPROC, t) /\ Lt(t, PT_HIPROC) THEN Known("Processor-specific")
    ELSE IF t = PT_GNU_EH_FRAME THEN Known("GNU_EH_FRAME")
    ELSE IF t = PT_GNU_STACK THEN Known("GNU_STACK")
    ELSE IF t = PT_GNU_RELRO THEN Known("GNU_RELRO")
    ELSE Invalid(t)

SegmentType(t) ==
    IF t = U32(PT_NULL) THEN Known("NULL")
    ELSE IF t = U32(PT_LOAD) THEN Known("LOAD")
    ELSE IF t = U32(2) THEN Known("DYNAMIC")
    ELSE IF t = U32(3) THEN Known("INTERP")
    ELSE IF t = U32(4) THEN Known("NOTE")
    ELSE IF t = U32(5) THEN Known("SHLIB")
    ELSE IF t = U32(6) THEN Known("PHDR")
    ELSE IF Le(PT_LOPROC, t) /\ Le(t, PT_HIPROC) THEN Known("Processor-specific")
    ELSE IF t = PT_GNU_EH_FRAME THEN Known("GNU_EH_FRAME")
    ELSE IF t = PT_GNU_STACK THEN Known("GNU_STACK")
    ELSE IF t = PT_GNU_RELRO THEN Known("GNU_RELRO")
    ELSE Invalid(t)

\* Perms with the tests of PF_W and PF_X exchanged
PermsSwapped(flags) ==
    << IF Bit(flags, PF_R) THEN "r" ELSE "-",
       IF Bit(flags, PF_X) THEN "w" ELSE "-",
       IF Bit(flags, PF_W) THEN "x" ELSE "-" >>

\* the three permission characters of a row
Perms(flags) ==
    << IF Bit(flags, PF_R) THEN "r" ELSE "-",
       IF Bit(flags, PF_W) THEN "w" ELSE "-",
       IF Bit(flags, PF_X) THEN "x" ELSE "-" >>

\* where ph points in iteration idx
PhPos(idx) == Add64(e_phoff, Mul16(idx, SizeofPhdr))

\* the offset printed in the first column of row idx; the int product
\* i * e_phentsize stays below 2^31 for every index the model reaches
PhRowOffset(idx) == Add64(e_phoff, Mul16(idx, Lo(e_phentsize)))

PhRow(idx, q) ==
    [ offset  |-> PhRowOffset(idx),
      index   |-> idx,
      type    |-> SegmentType(p_type(q)),
      perms   |-> Perms(p_flags(q)),
      p_offset |-> Field(q + 8, 8),
      p_vaddr  |-> Field(q + 16, 8),
      p_paddr  |-> Field(q + 24, 8),
      p_filesz |-> Field(q + 32, 8),
      p_memsz  |-> Field(q + 40, 8),
      p_align  |-> Field(q + 48, 8),
      \* not printed: where the row was read from, and the raw flags word
      pos     |-> q,
      p_flags |-> p_flags(q) ]

ph_entry ==
    /\ pc = "parse_program_headers"
    /\ i < Lo(e_phnum)
    /\ called' = called \cup {"parse_program_headers"}
    /\ reads' = [reads EXCEPT !.ph = Append(@, PhPos(i))]
    /\ IF Mapped(PhPos(i), SizeofPhdr)
       THEN /\ phdrs' = Append(phdrs, PhRow(i, Lo(PhPos(i))))
            /\ i' = i + 1
            /\ pc' = pc
       ELSE /\ pc' = "segv"
            /\ UNCHANGED <<phdrs, i>>
    /\ UNCHANGED <<file, neighbour, fill, str_offset, newline, hdr, shdrs, strtabs>>

ph_done ==
    /\ pc = "parse_program_headers"
    /\ ~(i < Lo(e_phnum))
    /\ called' = called \cup {"parse_program_headers"}
    /\ pc' = "parse_section_headers"
    /\ i' = 0
    /\ UNCHANGED <<file, neighbour, fill, str_offset, newline, hdr, phdrs, shdrs, strtabs, reads>>

(***************************************************************************)
(* parse_section_headers: the same loop over e_shnum entries at e_shoff.   *)
(***************************************************************************)
SectionType(t) ==
    IF t = U32(SHT_NULL) THEN Known("NULL")
    ELSE IF t = U32(SHT_PROGBITS) THEN Known("PROGBITS")
    ELSE IF t = U32(2) THEN Known("SYMTAB")
    ELSE IF t = U32(SHT_STRTAB) THEN Known("STRTAB")
    ELSE IF t = U32(4) THEN Known("RELA")
    ELSE IF t = U32(5) THEN Known("HASH")
    ELSE IF t = U32(6) THEN Known("DYNAMIC")
    ELSE IF t = U32(7) THEN Known("NOTE")
    ELSE IF t = U32(8) THEN Known("NOBITS")
    ELSE IF t = U32(9) THEN Known("REL")
    ELSE IF t = U32(10) THEN Known("SHLIB")
    ELSE IF t = U32(11) THEN Known("DYNSYM")
    ELSE Invalid(t)

SectionFlags(flags) ==
    << IF Bit(flags, 1) THEN "w" ELSE " ",
       IF Bit(flags, 2) THEN "a" ELSE " ",
       IF Bit(flags, 4) THEN "x" ELSE " " >>

ShPos(idx) == Add64(e_shoff, Mul16(idx, SizeofShdr))

ShRowOffset(idx) == Add64(e_shoff, Mul16(idx, Lo(e_shentsize)))

ShRow(idx, q) ==
    [ offset    |-> ShRowOffset(idx),
      name      |-> sh_name(q),
      type      |-> SectionType(sh_type(q)),
      flags     |-> SectionFlags(sh_flags(q)),
      sh_addr   |-> Field(q + 16, 8),
      sh_offset |-> sh_offset(q),
      sh_size   |-> sh_size(q),
      sh_link   |-> Field(q + 40, 4),
      sh_info   |-> Field(q + 44, 4),
      sh_addralign |-> Field(q + 48, 8),
      sh_entsize   |-> Field(q + 56, 8),
      \* not printed: where the row was read from
      pos       |-> q ]

sh_entry ==
    /\ pc = "parse_section_headers"
    /\ i < Lo(e_shnum)
    /\ called' = called \cup {"parse_section_headers"}
    /\ reads' = [reads EXCEPT !.sh = Append(@, ShPos(i))]
    /\ IF Mapped(ShPos(i), SizeofShdr)
       THEN /\ shdrs' = Append(shdrs, ShRow(i, Lo(ShPos(i))))
            /\ i' = i + 1
            /\ pc' = pc
       ELSE /\ pc' = "segv"
            /\ UNCHANGED <<shdrs, i>>
    /\ UNCHANGED <<file, neighbour, fill, str_offset, newline, hdr, phdrs, strtabs>>

sh_done ==
    /\ pc = "parse_section_headers"
    /\ ~(i < Lo(e_shnum))
    /\ called' = called \cup {"parse_section_headers"}
    /\ pc' = "parse_string_tables"
    /\ i' = 0
    /\ UNCHANGED <<file, neighbour, fill, str_offset, newline, hdr, phdrs, shdrs, strtabs, reads>>

(***************************************************************************)
(* parse_string_tables: for each section of type SHT_STRTAB the bytes at   *)
(* str_offset = sh_offset, sh_offset + 1, ... are printed while            *)
(* str_offset < (size_t)(sh_offset + sh_size).  The key of a run is        *)
(* printed before its first byte is read.                                  *)
(***************************************************************************)
\* StrEnd one byte short, as if the loop ran to sh_offset + sh_size - 1
StrEndShort(off, size) == Add64(off, Add64(size, Max64))

\* the end of the scan, (size_t)(sh->sh_offset + sh->sh_size)
StrEnd(off, size) == Add64(off, size)

\* the key printed when a run starts at str_offset
StrKey(pos) == pos

\* the body of the outer loop up to the start of the inner one
str_section ==
    /\ pc = "parse_string_tables"
    /\ i < Lo(e_shnum)
    /\ called' = called \cup {"parse_string_tables"}
    /\ LET q == ShPos(i) IN
       IF ~Mapped(q, 8)
       THEN \* sh->sh_type cannot be read
            /\ pc' = "segv"
            /\ UNCHANGED <<i, str_offset, newline, strtabs, reads>>
       ELSE IF sh_type(Lo(q)) # U32(SHT_STRTAB)
       THEN /\ i' = i + 1
            /\ pc' = pc
            /\ UNCHANGED <<str_offset, newline, strtabs, reads>>
       ELSE IF ~Mapped(q, 40)
       THEN \* sh->sh_offset or sh->sh_size cannot be read
            /\ pc' = "segv"
            /\ UNCHANGED <<i, str_offset, newline, strtabs, reads>>
       ELSE /\ str_offset' = sh_offset(Lo(q))
            /\ newline' = TRUE
            /\ strtabs' = Append(strtabs,
                   [ section |-> i, sh_offset |-> sh_offset(Lo(q)),
                     sh_size |-> sh_size(Lo(q)), lines |-> <<>> ])
            /\ reads' = [reads EXCEPT !.str = Append(@, [from |-> sh_offset(Lo(q)), n |-> 0])]
            /\ pc' = "str_scan"
            /\ i' = i
    /\ UNCHANGED <<file, neighbour, fill, hdr, phdrs, shdrs>>

\* the lines printed so far with the key of a new run added when the
\* loop's flag is set
StrOpened(lines, flag, pos) ==
    IF flag
    THEN Append(lines, [key |-> StrKey(pos), text |-> <<>>, nl |-> FALSE])
    ELSE lines

\* the lines after the byte c has been handled
StrPrinted(lines, c) ==
    IF c = 0
    THEN [lines EXCEPT ![Len(lines)].nl = TRUE]
    ELSE [lines EXCEPT ![Len(lines)].text = Append(@, c)]

\* one iteration of the inner loop
str_byte ==
    /\ pc = "str_scan"
    /\ LET q == Lo(ShPos(i))
           t == Len(strtabs)
           opened == StrOpened(strtabs[t].lines, newline, str_offset)
       IN  /\ Lt(str_offset, StrEnd(sh_offset(q), sh_size(q)))
           /\ reads' = [reads EXCEPT !.str[t].n = @ + 1]
           /\ IF Mapped(str_offset, 1)
              THEN /\ strtabs' = [strtabs EXCEPT ![t].lines =
                                      StrPrinted(opened, Mem(Lo(str_offset)))]
                   /\ newline' = (Mem(Lo(str_offset)) = 0)
                   /\ str_offset' = Add64(str_offset, U64(1))
                   /\ pc' = pc
              ELSE /\ strtabs' = [strtabs EXCEPT ![t].lines = opened]
                   /\ pc' = "segv"
                   /\ UNCHANGED <<str_offset, newline>>
    /\ UNCHANGED <<file, neighbour, fill, i, called, hdr, phdrs, shdrs>>

\* the inner loop's exit
str_scan_done ==
    /\ pc = "str_scan"
    /\ LET q == Lo(ShPos(i))
       IN  ~Lt(str_offset, StrEnd(sh_offset(q), sh_size(q)))
    /\ pc' = "parse_string_tables"
    /\ i' = i + 1
    /\ UNCHANGED <<file, neighbour, fill, called, hdr, phdrs, shdrs,
                   str_offset, newline, strtabs, reads>>

str_done ==
    /\ pc = "parse_string_tables"
    /\ ~(i < Lo(e_shnum))
    /\ called' = called \cup {"parse_string_tables"}
    /\ pc' = "cleanup"
    /\ UNCHANGED <<file, neighbour, fill, i, str_offset, newline, hdr, phdrs, shdrs, strtabs, reads>>

(***************************************************************************)
(* cleanup, and main's return 0.                                           *)
(***************************************************************************)
cleanup ==
    /\ pc = "cleanup"
    /\ called' = called \cup {"cleanup"}
    /\ pc' = "exited"
    /\ UNCHANGED <<file, neighbour, fill, i, str_offset, newline, hdr, phdrs, shdrs, strtabs, reads>>

\* the process's wait status: 0 from main's return, else the signal's
exit_status ==
    CASE pc = "exited"  -> 0
      [] pc = "aborted" -> 134       \* 128 + SIGABRT
      [] pc = "segv"    -> 139       \* 128 + SIGSEGV
      [] OTHER -> -1                 \* still running

Next ==
    \/ map_file
    \/ parse_elf_header
    \/ ph_entry
    \/ ph_done
    \/ sh_entry
    \/ sh_done
    \/ str_section
    \/ str_byte
    \/ str_scan_done
    \/ str_done
    \/ cleanup

(***************************************************************************)
(* The inputs: images built from parameter records, and what lies after    *)
(* the mapping.                                                            *)
(***************************************************************************)
AbcDef == <<97, 98, 99, 0, 100, 101, 102, 0>>       \* "abc\0def\0"

Base ==
    [ enc |-> ELFDATA2LSB, magic |-> TRUE, phnum |-> 1, shnum |-> MaxSh,
      phLast |-> FALSE, phentsize |-> SizeofPhdr, shentsize |-> SizeofShdr,
      shstrndx |-> 1, phoffMode |-> "ok", ptype |-> U32(PT_LOAD),
      pflags |-> U32(5), str |-> AbcDef, strAtZero |-> FALSE,
      sizeMode |-> "exact", cut |-> -1 ]

Cuts == {-1, -2, 0, 3, 4, 15, 16, 63, 64}

Shapes ==
    { [Base EXCEPT !.enc = e, !.magic = m, !.phnum = np, !.shnum = ns,
                   !.phLast = pl, !.cut = c] :
        e \in {ELFDATA2LSB, ELFDATA2MSB}, m \in BOOLEAN, np \in 0..MaxPh,
        ns \in 0..MaxSh, pl \in BOOLEAN, c \in Cuts }

HeaderFields ==
    { [Base EXCEPT !.phentsize = pe, !.shentsize = se, !.shstrndx = sx,
                   !.phoffMode = pm, !.shnum = ns] :
        pe \in {SizeofPhdr, 32, 57}, se \in {SizeofShdr, 72},
        sx \in {SHN_UNDEF, 1, SHN_XINDEX}, pm \in {"ok", "past", "huge"},
        ns \in 0..MaxSh }

PFlagsSet == {U32(f) : f \in 0..8} \cup {U32(13), <<5, 61440>>}

PTypeSet ==
    {U32(t) : t \in 0..8} \cup
    {PT_LOPROC, PT_HIPROC, <<1, 28672>>, <<0, 32768>>,
     PT_GNU_EH_FRAME, PT_GNU_STACK, PT_GNU_RELRO, <<58707, 25716>>}

Segments ==
    { [Base EXCEPT !.ptype = t, !.pflags = f, !.phnum = np] :
        t \in PTypeSet, f \in PFlagsSet, np \in 1..MaxPh }

StrSet ==
    { AbcDef, <<97, 98>>, <<97, 0, 98>>, <<0, 0>>, <<0, 97, 0>>, <<>> }

Strings ==
    { [Base EXCEPT !.str = s, !.strAtZero = z, !.sizeMode = sm, !.cut = c,
                   !.phLast = pl] :
        s \in StrSet, z \in BOOLEAN, sm \in {"exact", "beyond", "wrap"},
        c \in {-1, -2}, pl \in BOOLEAN }

\* whole tables of several entries under entry-size fields that differ from
\* the sizes of the structs
Strides ==
    { [Base EXCEPT !.phentsize = pe, !.shentsize = se, !.phnum = MaxPh,
                   !.shnum = MaxSh] :
        pe \in {SizeofPhdr, 32, 57}, se \in {SizeofShdr, 72} }

Params == Shapes \cup HeaderFields \cup Segments \cup Strings \cup Strides

FillBytes == {0, 255}

Init ==
    /\ \E p \in Params : file = Image(p)
    /\ neighbour \in {0, PageSize}
    /\ fill \in FillBytes
    /\ neighbour = 0 => fill = 0
    /\ pc = "map_file"
    /\ i = 0
    /\ str_offset = U64(0)
    /\ newline = FALSE
    /\ called = {}
    /\ hdr = [ class |-> "", data |-> "", type |-> "", machine |-> <<>>,
               e_phoff |-> <<>>, e_shoff |-> <<>>, e_phentsize |-> <<>>,
               e_phnum |-> <<>>, e_shentsize |-> <<>>, e_shnum |-> <<>>,
               stridx |-> <<>>, stridx_text |-> "" ]
    /\ phdrs = <<>>
    /\ shdrs = <<>>
    /\ strtabs = <<>>
    /\ reads = [ph |-> <<>>, sh |-> <<>>, str |-> <<>>]

Spec == Init /\ [][Next]_vars

(***************************************************************************)
(* What the claims speak of.                                               *)
(***************************************************************************)
Decoders ==
    {"parse_elf_header", "parse_program_headers", "parse_section_headers",
     "parse_string_tables"}

Ended == pc \in {"exited", "aborted", "segv"}

\* the first four bytes of the file are 0x7f 'E' 'L' 'F'
FileMagic == st_size >= 4 /\ SubSeq(file, 1, 4) = Magic

\* a 64-bit image with a whole header that declares the host's encoding
LsbImage ==
    /\ st_size >= SizeofEhdr
    /\ FileMagic
    /\ file[5] = 2
    /\ file[6] = ELFDATA2LSB

\* parse_program_headers has left its loop, by its end or by a fault
PhLoopOver ==
    /\ "parse_program_headers" \in called
    /\ pc # "parse_program_headers"

ShLoopOver ==
    /\ "parse_section_headers" \in called
    /\ pc # "parse_section_headers"

\* the process was killed inside parse_program_headers
PhFault ==
    /\ pc = "segv"
    /\ "parse_program_headers" \in called
    /\ "parse_section_headers" \notin called

ShFault ==
    /\ pc = "segv"
    /\ "parse_section_headers" \in called
    /\ "parse_string_tables" \notin called

\* the end of a table of n entries of size bytes at off, when it fits 16 bits
TableEnd(off, n, size) == Add64(off, Mul16(Lo(n), Lo(size)))

\* the rows carry the indexes 0, 1, 2, ... read at ascending positions
PhAscending ==
    \A k \in 1..Len(phdrs) :
        /\ phdrs[k].index = k - 1
        /\ phdrs[k].pos = Lo(e_phoff) + (k - 1) * SizeofPhdr

ShAscending ==
    \A k \in 1..Len(shdrs) :
        shdrs[k].pos = Lo(e_shoff) + (k - 1) * SizeofShdr

(***************************************************************************)
(* C1: a buffer shorter than 16 bytes, or one whose first 4 bytes are not  *)
(* the magic, is rejected by identification validation: no decoder is ever *)
(* invoked and the process ends with a non-zero exit.                      *)
(***************************************************************************)
C1_NotAnElfRejected ==
    (st_size < EI_NIDENT \/ ~FileMagic) =>
        /\ called \cap Decoders = {}
        /\ (Ended => exit_status # 0)

(***************************************************************************)
(* C2: the program header table decoder never reads a byte at or beyond    *)
(* the buffer length, and when e_phoff points past the end of the file it  *)
(* decodes zero entries.                                                   *)
(***************************************************************************)
C2_PhReadsInBounds ==
    LsbImage =>
        /\ \A k \in 1..Len(reads.ph) :
               /\ IsSmall(reads.ph[k])
               /\ Lo(reads.ph[k]) + SizeofPhdr <= st_size
        /\ (~Lt(e_phoff, U64(st_size)) => phdrs = <<>>)

(***************************************************************************)
(* C3: the bounds check of both header tables is exact: a table whose last *)
(* entry ends exactly at the buffer length decodes with all its entries in *)
(* ascending index order, and the same table in a buffer one byte shorter  *)
(* fails with OutOfBounds, which is an error result and not a crash.       *)
(***************************************************************************)
PhTableEnd == TableEnd(e_phoff, e_phnum, e_phentsize)
ShTableEnd == TableEnd(e_shoff, e_shnum, e_shentsize)

C3_ExactBoundsCheck ==
    LsbImage =>
        /\ (PhTableEnd = U64(st_size) /\ PhLoopOver) =>
               /\ Len(phdrs) = Lo(e_phnum)
               /\ PhAscending
        /\ (ShTableEnd = U64(st_size) /\ ShLoopOver) =>
               /\ Len(shdrs) = Lo(e_shnum)
               /\ ShAscending
        /\ (PhTableEnd = U64(st_size + 1) /\ Lo(e_phnum) > 0) =>
               /\ Len(phdrs) < Lo(e_phnum)
               /\ ~PhFault
        /\ (ShTableEnd = U64(st_size + 1) /\ Lo(e_shnum) > 0) =>
               /\ Len(shdrs) < Lo(e_shnum)
               /\ ~ShFault

(***************************************************************************)
(* C4: no input makes the process abort or crash: a structural error is    *)
(* never an assertion failure or an abnormal termination.                  *)
(***************************************************************************)
C4_NoAbnormalTermination == pc # "aborted" /\ pc # "segv"

(***************************************************************************)
(* C5: the string table extractor reads only positions p with              *)
(* sh_offset <= p < sh_offset + sh_size, and never a position at or beyond *)
(* the buffer length.                                                      *)
(***************************************************************************)
C5_StrReadsInBounds ==
    LsbImage =>
        \A k \in 1..Len(reads.str) :
            LET r == reads.str[k]
                t == strtabs[k]
            IN  r.n > 0 =>
                    /\ r.from = t.sh_offset
                    /\ Le(U64(r.n), t.sh_size)
                    /\ IsSmall(r.from)
                    /\ Lo(r.from) + r.n <= st_size

(***************************************************************************)
(* C6: for every STRTAB section the extractor yields one entry per         *)
(* nul-terminated run, keyed by the run's starting offset measured from    *)
(* the start of the section, with the run's bytes up to the nul as its     *)
(* content.                                                                *)
(***************************************************************************)
\* the nul-terminated runs of a byte string: where each starts (from 0) and
\* its bytes up to, but excluding, the nul
NulRuns(bs) ==
    { [start |-> s, text |-> SubSeq(bs, s + 1, e - 1)] :
        <<s, e>> \in
            { se \in (0..(Len(bs) - 1)) \X (1..Len(bs)) :
                /\ se[1] < se[2]
                /\ (se[1] = 0 \/ bs[se[1]] = 0)
                /\ bs[se[2]] = 0
                /\ \A m \in (se[1] + 1)..(se[2] - 1) : bs[m] # 0 } }

\* the section of a printed string table lies within the file
StrInFile(t) ==
    /\ IsSmall(t.sh_offset) /\ IsSmall(t.sh_size)
    /\ Lo(t.sh_offset) + Lo(t.sh_size) <= st_size

StrBytes(t) == SubSeq(file, Lo(t.sh_offset) + 1, Lo(t.sh_offset) + Lo(t.sh_size))

\* the entries of a printed table that ended in a nul
StrEntries(t) ==
    { [start |-> t.lines[k].key, text |-> t.lines[k].text] :
        k \in {m \in 1..Len(t.lines) : t.lines[m].nl} }

\* the scan of the k-th printed table has reached its end
StrScanned(k) ==
    \/ k < Len(strtabs)
    \/ pc \in {"parse_string_tables", "cleanup", "exited"}

C6_KeysFromSectionStart ==
    LsbImage =>
        \A k \in 1..Len(strtabs) :
            (StrInFile(strtabs[k]) /\ StrScanned(k)) =>
                StrEntries(strtabs[k]) =
                    { [start |-> U64(r.start), text |-> r.text] :
                        r \in NulRuns(StrBytes(strtabs[k])) }

(***************************************************************************)
(* C7: for every program header entry and every raw p_flags value, the     *)
(* raw value rebuilt from the decoded set over {Read, Write, Execute}      *)
(* (PF_R = 4, PF_W = 2, PF_X = 1) is the original p_flags.                 *)
(***************************************************************************)
Rebuilt(perms) ==
    (IF perms[1] = "r" THEN PF_R ELSE 0) +
    (IF perms[2] = "w" THEN PF_W ELSE 0) +
    (IF perms[3] = "x" THEN PF_X ELSE 0)

\* the row was read from within the file
PhRowInFile(row) == row.pos + SizeofPhdr <= st_size

C7_FlagsRoundTrip ==
    \A k \in 1..Len(phdrs) :
        PhRowInFile(phdrs[k]) =>
            U32(Rebuilt(phdrs[k].perms)) = phdrs[k].p_flags

(***************************************************************************)
(* C7, amended: the rebuilt value is p_flags with every bit other than     *)
(* PF_R, PF_W and PF_X cleared (p_flags & 7); it is the original p_flags   *)
(* exactly when p_flags is below 8.                                        *)
(***************************************************************************)
C7_FlagsRoundTripLowBits ==
    \A k \in 1..Len(phdrs) :
        /\ Rebuilt(phdrs[k].perms) = phdrs[k].p_flags[1] % 8
        /\ (U32(Rebuilt(phdrs[k].perms)) = phdrs[k].p_flags
                <=> Lt(phdrs[k].p_flags, U32(8)))

\* a row was printed for p_flags = 13: it shows r-x, which rebuilds to 5
C7_Witness ==
    \E k \in 1..Len(phdrs) :
        /\ PhRowInFile(phdrs[k])
        /\ phdrs[k].p_flags = U32(13)
        /\ phdrs[k].perms = <<"r", "-", "x">>
        /\ phdrs[k].type = Known("LOAD")

(***************************************************************************)
(* C8: for all valid ELF64 images, in either data encoding, the decoded    *)
(* e_phoff, e_shoff, e_phnum and e_shnum are the integers that the bytes   *)
(* at 0x20, 0x28, 0x38 and 0x3c denote in the encoding of e_ident[5].      *)
(***************************************************************************)
ValidElf64 ==
    /\ st_size >= SizeofEhdr
    /\ FileMagic
    /\ file[5] = 2
    /\ file[6] \in {ELFDATA2LSB, ELFDATA2MSB}

\* the integer the n bytes at file offset q denote in the declared encoding
Declared(q, n) == Dec(SubSeq(file, q + 1, q + n), file[6])

C8_DeclaredEndianness ==
    (ValidElf64 /\ "parse_elf_header" \in called) =>
        /\ hdr.e_phoff = Declared(32, 8)
        /\ hdr.e_shoff = Declared(40, 8)
        /\ hdr.e_phnum = Declared(56, 2)
        /\ hdr.e_shnum = Declared(60, 2)

(***************************************************************************)
(* C9: the value reported for the section-header string-table index is the *)
(* 16-bit field at 0x3e, and "no table" and "extended index" are decided   *)
(* from that field, whatever e_shnum is.                                   *)
(***************************************************************************)
C9_StrIdxIsShstrndx ==
    (LsbImage /\ "parse_elf_header" \in called) =>
        /\ hdr.stridx = Declared(62, 2)
        /\ (hdr.stridx_text = "No string table present"
                <=> Declared(62, 2) = U16(SHN_UNDEF))
        /\ (hdr.stridx_text = "Extended index used"
                <=> Declared(62, 2) = U16(SHN_XINDEX))

(***************************************************************************)
(* C10: when e_phentsize is not 56 or e_shentsize is not 64, header        *)
(* decoding reports UnsupportedLayout and neither table is iterated.       *)
(***************************************************************************)
C10_EntrySizesChecked ==
    (LsbImage /\ (Declared(54, 2) # U16(SizeofPhdr)
                    \/ Declared(58, 2) # U16(SizeofShdr))) =>
        /\ reads.ph = <<>> /\ phdrs = <<>>
        /\ reads.sh = <<>> /\ shdrs = <<>>
        /\ pc \notin {"parse_section_headers", "parse_string_tables",
                      "cleanup", "exited"}

(***************************************************************************)
(* C11: segment-type classification is a total function of p_type: the     *)
(* seven fixed values map to NULL, LOAD, DYNAMIC, INTERP, NOTE, SHLIB and  *)
(* PHDR, every value of [PT_LOPROC, PT_HIPROC], both ends included, maps   *)
(* to processor-specific, the three GNU values map to their kinds and are  *)
(* not taken by the range test, and every other value maps to the unknown  *)
(* kind that carries the raw p_type.                                       *)
(***************************************************************************)
FixedKinds == <<"NULL", "LOAD", "DYNAMIC", "INTERP", "NOTE", "SHLIB", "PHDR">>

\* a 32-bit value lies in 0x70000000..0x7fffffff exactly when its high
\* half lies in 0x7000..0x7fff
InProcRange(t) == t[2] \in 28672..32767

GnuKinds ==
    { <<PT_GNU_EH_FRAME, "GNU_EH_FRAME">>, <<PT_GNU_STACK, "GNU_STACK">>,
      <<PT_GNU_RELRO, "GNU_RELRO">> }

\* the kinds the claim allows for a raw p_type
KindsOf(t) ==
    { Known(FixedKinds[n + 1]) : n \in {m \in 0..6 : t = U32(m)} }
    \cup { Known("Processor-specific") : x \in {y \in {t} : InProcRange(y)} }
    \cup { Known(g[2]) : g \in {h \in GnuKinds : h[1] = t} }

ExpectedKinds(t) == IF KindsOf(t) = {} THEN {Invalid(t)} ELSE KindsOf(t)

C11_SegmentTypes ==
    \A k \in 1..Len(phdrs) :
        /\ Cardinality(ExpectedKinds(p_type(phdrs[k].pos))) = 1
        /\ phdrs[k].type \in ExpectedKinds(p_type(phdrs[k].pos))

\* a row read from the file with p_type = PT_HIPROC was printed as
\* processor-specific
C11_Witness ==
    \E k \in 1..Len(phdrs) :
        /\ PhRowInFile(phdrs[k])
        /\ p_type(phdrs[k].pos) = PT_HIPROC
        /\ phdrs[k].type = Known("Processor-specific")

(***************************************************************************)
(* C12: when the last byte of a STRTAB section is not nul, the final       *)
(* unterminated run is handled by one fixed policy.  The program's policy  *)
(* is the partial entry: the run is printed as the table's last entry,     *)
(* with no newline after it, its key is the run's start (the offset the    *)
(* program prints for every run, counted from the start of the file) and   *)
(* its content is exactly the bytes from that start up to                  *)
(* sh_offset + sh_size; it is never dropped and never empty, and no table  *)
(* is rejected.                                                            *)
(***************************************************************************)
\* the section of a printed table does not end in a nul
Unterminated(t) ==
    /\ StrInFile(t)
    /\ Lo(t.sh_size) > 0
    /\ StrBytes(t)[Lo(t.sh_size)] # 0

\* where the last run of a byte string that does not end in a nul starts
FinalRunStart(bs) ==
    CHOOSE s \in 0..(Len(bs) - 1) :
        /\ (s = 0 \/ bs[s] = 0)
        /\ \A m \in (s + 1)..Len(bs) : bs[m] # 0

C12_PartialFinalRun ==
    \A k \in 1..Len(strtabs) :
        (Unterminated(strtabs[k]) /\ StrScanned(k)) =>
            LET t  == strtabs[k]
                bs == StrBytes(t)
                s  == FinalRunStart(bs)
                n  == Len(t.lines)
            IN  /\ n = Cardinality(NulRuns(bs)) + 1
                /\ t.lines[n].nl = FALSE
                /\ t.lines[n].key = U64(Lo(t.sh_offset) + s)
                /\ t.lines[n].text = SubSeq(bs, s + 1, Len(bs))
                /\ t.lines[n].text # <<>>
                /\ \A m \in 1..(n - 1) : t.lines[m].nl

\* the table "a\0b" was scanned to its end: "a" and then the partial "b"
C12_Witness ==
    \E k \in 1..Len(strtabs) :
        /\ Unterminated(strtabs[k])
        /\ StrScanned(k)
        /\ StrBytes(strtabs[k]) = <<97, 0, 98>>
        /\ Len(strtabs[k].lines) = 2
        /\ strtabs[k].lines[2].text = <<98>>

(***************************************************************************)
(* C13: for every entry index i of the program header table, and likewise  *)
(* of the section header table, the file offset printed for entry i,       *)
(* e_phoff + i * e_phentsize (e_shoff + i * e_shentsize), is the file      *)
(* offset from which entry i's fields are read, for all values of the      *)
(* entry-size field and all i below the entry count.                       *)
(***************************************************************************)
C13_RowOffsetIsReadOffset ==
    LsbImage =>
        /\ \A k \in 1..Len(phdrs) : phdrs[k].offset = U64(phdrs[k].pos)
        /\ \A k \in 1..Len(shdrs) : shdrs[k].offset = U64(shdrs[k].pos)

====
